---- MODULE Spec2Model ----
(***************************************************************************)
(* Payment / order reconciliation of lhmmUser/reconcile-agent:             *)
(*   backend/app/routers/razorpay_export.py  fetch_payments                *)
(*   backend/app/routers/reconcile.py        norm,                         *)
(*                                           vlookup_payment_to_orders_auto*)
(*                                                                         *)
(* Strings are sequences of Unicode code points, so that str.replace,      *)
(* str.strip, str.lower and Python's string ordering are computed rather   *)
(* than assumed.  Python's None is the value None below.                   *)
(***************************************************************************)
EXTENDS Integers, Sequences, FiniteSets, TLC

\* ------------------------------------------------------------------------
\* Bounds of the exploration
\* ------------------------------------------------------------------------
MaxStrLen == 3      \* longest string handed to norm in SpecNorm
MaxPages == 2       \* the gateway holds up to MaxPages full pages (+1 record)
MaxPayments == 2    \* length of the short gateway lists
MaxOrders == 2      \* documents in the order collection (matching scenario)
MaxDocs == 3        \* documents in the order collection (concurrent scenario)
MaxBatch == 2       \* orders_batch_size ranges over 1..MaxBatch (the endpoint
                    \* accepts 1000..200000; the loop is the same for any b >= 1)
MaxWrites == 2      \* concurrent inserts/deletes during one scan

\* ------------------------------------------------------------------------
\* Strings
\* ------------------------------------------------------------------------
None == <<-1>>
SP == 32
NBSP == 160
COUNT == 100

\* the code points for which Python's str.isspace() holds (what strip() removes)
Whitespace ==
    {9, 10, 11, 12, 13, 28, 29, 30, 31, 32, 133, 160, 5760, 8232, 8233, 8239, 8287, 12288}
        \cup (8192..8202)

IsSpace(c) == c \in Whitespace

IsString(s) == s # None /\ \A i \in 1..Len(s) : s[i] \in Nat

\* `s or d`
OrElse(s, d) == IF s = None \/ s = <<>> THEN d ELSE s

\* s.replace(" ", " ")
ReplaceNbsp(s) == [i \in 1..Len(s) |-> IF s[i] = NBSP THEN SP ELSE s[i]]

RECURSIVE LStrip(_)
LStrip(s) == IF s = <<>> \/ ~IsSpace(Head(s)) THEN s ELSE LStrip(Tail(s))

RECURSIVE RStrip(_)
RStrip(s) ==
    IF s = <<>> \/ ~IsSpace(s[Len(s)]) THEN s ELSE RStrip(SubSeq(s, 1, Len(s) - 1))

\* s.strip()
Strip(s) == RStrip(LStrip(s))

\* s.lower(), on the ASCII letters the model's strings are made of
LowerChar(c) == IF c >= 65 /\ c <= 90 THEN c + 32 ELSE c
Lower(s) == [i \in 1..Len(s) |-> LowerChar(s[i])]

\* Python's ordering of str: lexicographic by code point
RECURSIVE StrLess(_, _)
StrLess(a, b) ==
    IF b = <<>> THEN FALSE
    ELSE IF a = <<>> THEN TRUE
    ELSE IF Head(a) # Head(b) THEN Head(a) < Head(b)
    ELSE StrLess(Tail(a), Tail(b))

\* norm with the strip() left out
norm_nostrip(s, case_insensitive) ==
    LET t == ReplaceNbsp(OrElse(s, <<>>))
    IN  IF case_insensitive THEN Lower(t) ELSE t

\* norm(s, *, case_insensitive)
norm(s, case_insensitive) ==
    LET t == Strip(ReplaceNbsp(OrElse(s, <<>>)))
    IN  IF case_insensitive THEN Lower(t) ELSE t

\* ------------------------------------------------------------------------
\* String literals of the model
\* ------------------------------------------------------------------------
S_captured == <<99, 97, 112, 116, 117, 114, 101, 100>>          \* "captured"
S_Captured == <<67, 97, 112, 116, 117, 114, 101, 100>>          \* "Captured"
S_CapturedSp == <<67, 97, 112, 116, 117, 114, 101, 100, 32>>    \* "Captured "
S_SpCaptured == <<32, 99, 97, 112, 116, 117, 114, 101, 100>>    \* " captured"
S_failed == <<102, 97, 105, 108, 101, 100>>                     \* "failed"
S_authorized == <<97, 117, 116, 104, 111, 114, 105, 122, 101, 100>>  \* "authorized"
S_Authorized == <<65, 117, 116, 104, 111, 114, 105, 122, 101, 100>>  \* "Authorized"
S_PAY_1 == <<80, 65, 89, 95, 49>>                               \* "PAY_1"
S_pay_1 == <<112, 97, 121, 95, 49>>                             \* "pay_1"
S_pay_2 == <<112, 97, 121, 95, 50>>                             \* "pay_2"
S_PAY_1_nbsp == <<80, 65, 89, 95, 49, 160>>                     \* "PAY_1\u00A0"
S_blank == <<32, 160, 9, 32, 160, 32>>                          \* " \u00A0\t \u00A0 "
S_space == <<32>>                                               \* " "

\* ------------------------------------------------------------------------
\* The gateway's payment list and the order collection
\* ------------------------------------------------------------------------
Payment(id, st) == [id |-> id, status |-> st]

\* payments of the short lists: a case collision (PAY_1 / pay_1), a status in
\* mixed case with a trailing space, a blank id and an empty id
PayPool ==
    { Payment(S_PAY_1, S_captured), Payment(S_pay_1, S_failed),
      Payment(S_pay_2, S_CapturedSp), Payment(S_blank, S_captured),
      Payment(<<>>, S_captured) }

RECURSIVE Digits(_)
Digits(n) == IF n < 10 THEN <<48 + n>> ELSE Append(Digits(n \div 10), 48 + (n % 10))

\* id of the i-th record of a long list: "p<i>"
FillerId(i) == <<112>> \o Digits(i)

\* a long list: L records, "authorized" except at the positions in bad
LongList(L, bad) ==
    [i \in 1..L |-> Payment(FillerId(i), IF i \in bad THEN S_failed ELSE S_authorized)]

LongLens == {p * COUNT + d : p \in 1..MaxPages, d \in {0, 1}}
BadPositions == {1, COUNT + 1}
LongUpstreams == {LongList(L, bad) : L \in LongLens, bad \in SUBSET BadPositions}

SeqsUpTo(S, n) == UNION {[1..k -> S] : k \in 0..n}
ShortUpstreams == SeqsUpTo(PayPool, MaxPayments)

\* transaction_id of an order document: absent, blank, or a payment reference
TxPool == {None, S_space, S_pay_1, S_PAY_1_nbsp}

\* the order collection: _id -> transaction_id; _ids are positive integers
MaxId == MaxDocs + MaxWrites
NoId == 0
Collections(pool, max) == UNION {[1..n -> pool] : n \in 0..max}

VARIABLES
    upstream,              \* gateway: the payments in the date window, in list order
    gatewayWraps,          \* gateway: the list never ends (it starts over)
    orders,                \* order store: user_details, _id -> transaction_id
    writeCap,              \* concurrent writes the environment may do during the scan
    storeWrites,           \* concurrent writes done since the scan began
    survivors,             \* _ids present before the scan and never deleted
    status, max_fetch, case_insensitive_ids, orders_batch_size, na_status,
    pc, exc, outcome, response,
    items, skip, gatewayLog, payments,
    pay_index, matched_keys, total_orders_docs, orders_with_tx, last_id,
    storeQueries, scanned,
    norm_in, norm_out, norm_again

vars ==
    << upstream, gatewayWraps, orders, writeCap, storeWrites, survivors,
       status, max_fetch, case_insensitive_ids, orders_batch_size, na_status,
       pc, exc, outcome, response,
       items, skip, gatewayLog, payments,
       pay_index, matched_keys, total_orders_docs, orders_with_tx, last_id,
       storeQueries, scanned,
       norm_in, norm_out, norm_again >>

paramVars ==
    << upstream, gatewayWraps, writeCap, status, max_fetch, case_insensitive_ids,
       orders_batch_size,
       na_status >>
storeVars == << orders, storeWrites, survivors >>
resultVars == << exc, outcome, response >>
fetchVars == << items, skip, gatewayLog, payments >>
scanVars ==
    << pay_index, matched_keys, total_orders_docs, orders_with_tx, last_id,
       storeQueries, scanned >>
normVars == << norm_in, norm_out, norm_again >>

NoResponse == [none |-> TRUE]
NoIndex == <<>>

Min(a, b) == IF a < b THEN a ELSE b
SetMin(S) == CHOOSE x \in S : \A y \in S : x <= y

\* ------------------------------------------------------------------------
\* fetch_payments (razorpay_export.py)
\* ------------------------------------------------------------------------
\* GET /payments?count=COUNT&skip=sk : the gateway's answer, data["items"]
GatewayPage(list, sk) == SubSeq(list, sk + 1, Min(sk + COUNT, Len(list)))

\* the answer of a gateway that has a full page for every skip: the list
\* taken circularly
EndlessPage(list, sk) == [i \in 1..COUNT |-> list[((sk + i - 1) % Len(list)) + 1]]

\* r.json(), data.get("items", []) or []
GatewayAnswer(list, sk, wraps) ==
    IF wraps THEN EndlessPage(list, sk) ELSE GatewayPage(list, sk)

\* the stop test with > for >=
FetchStops_gt(batch, acc, cap) == Len(batch) < COUNT \/ Len(acc) > cap

\* (p.get("status") or "").lower() == sf
StatusMatches(p, status_filter) == Lower(OrElse(p.status, <<>>)) = Lower(status_filter)

\* the page left as received, whatever the filter
FilterBatch_none(batch, status_filter) == batch

\* if status_filter: batch = [p for p in batch if ...]
FilterBatch(batch, status_filter) ==
    IF OrElse(status_filter, <<>>) = <<>> THEN batch
    ELSE SelectSeq(batch, LAMBDA p : StatusMatches(p, status_filter))

\* if len(batch) < COUNT or len(items) >= max_fetch: break
\* (batch is the page after the status filter, acc is items after extend)
FetchStops(batch, acc, cap) == Len(batch) < COUNT \/ Len(acc) >= cap

\* items[:max_fetch]
Truncate(acc, cap) == SubSeq(acc, 1, Min(cap, Len(acc)))

\* ------------------------------------------------------------------------
\* vlookup_payment_to_orders_auto (reconcile.py)
\* ------------------------------------------------------------------------
\* one iteration of `for p in payments:` building pay_index
IndexPut(idx, p, ci) ==
    LET raw_id == OrElse(p.id, <<>>)
    IN  IF raw_id = <<>> THEN idx
        ELSE LET key == norm(raw_id, ci)
                 st == Lower(Strip(OrElse(p.status, <<>>)))
             IN  (key :> [id |-> raw_id, status |-> st]) @@ idx

\* the loop `for p in payments:` over ps[lo..hi]: the assignments of the
\* second half of the range are made after, and so override, those of the first
RECURSIVE IndexRange(_, _, _, _)
IndexRange(ps, lo, hi, ci) ==
    IF lo > hi THEN NoIndex
    ELSE IF lo = hi THEN IndexPut(NoIndex, ps[lo], ci)
    ELSE LET mid == (lo + hi) \div 2
         IN  IndexRange(ps, mid + 1, hi, ci) @@ IndexRange(ps, lo, mid, ci)

\* pay_index had the loop run over the payments in reverse order
BuildIndex_firstwins(ps, ci) ==
    IndexRange([i \in 1..Len(ps) |-> ps[Len(ps) + 1 - i]], 1, Len(ps), ci)

\* pay_index after the loop over payments
BuildIndex(ps, ci) == IndexRange(ps, 1, Len(ps), ci)

\* ascending sequence of a finite set of integers
RECURSIVE Ascending(_)
Ascending(S) ==
    IF S = {} THEN <<>> ELSE LET m == SetMin(S) IN <<m>> \o Ascending(S \ {m})

\* the query document: {} or {"_id": {"$gt": last_id}}
QueryMatches(d, lastId) == lastId = NoId \/ d > lastId

\* orders_collection.find(q).sort([("_id", 1)]).limit(n): the _ids returned
StoreFind(coll, lastId, n) ==
    LET hits == Ascending({d \in DOMAIN coll : QueryMatches(d, lastId)})
    IN  SubSeq(hits, 1, Min(n, Len(hits)))

\* the loop left on a batch shorter than the limit
ScanEnds_short(batch, n) == Len(batch) < n

\* `if not batch: break`
ScanEnds(batch, n) == batch = <<>>

\* the cursor set to the first document of the batch
NextCursor_first(batch) == batch[1]

\* last_id = batch[-1]["_id"]
NextCursor(batch) == batch[Len(batch)]

\* the iteration without the test `if tx_key in payment_keys`
ScanDoc_nocheck(acc, raw_tx, keys, ci) ==
    IF OrElse(raw_tx, <<>>) = <<>> THEN acc
    ELSE LET tx_key == norm(raw_tx, ci)
         IN  IF tx_key = <<>> THEN acc
             ELSE [with_tx |-> acc.with_tx + 1, matched |-> acc.matched \cup {tx_key}]

\* one iteration of `for doc in batch:` on the counters [with_tx, matched]
ScanDoc(acc, raw_tx, keys, ci) ==
    IF OrElse(raw_tx, <<>>) = <<>> THEN acc
    ELSE LET tx_key == norm(raw_tx, ci)
         IN  IF tx_key = <<>> THEN acc
             ELSE [with_tx |-> acc.with_tx + 1,
                   matched |-> IF tx_key \in keys
                               THEN acc.matched \cup {tx_key} ELSE acc.matched]

RECURSIVE ScanFrom(_, _, _, _, _, _)
ScanFrom(acc, coll, batch, i, keys, ci) ==
    IF i > Len(batch) THEN acc
    ELSE ScanFrom(ScanDoc(acc, coll[batch[i]], keys, ci), coll, batch, i + 1, keys, ci)

\* the target status without the lower()
TargetStatus_nolower(na) == Strip(OrElse(na, S_captured))

\* target_status = (na_status or "captured").strip().lower()
TargetStatus(na) == Lower(Strip(OrElse(na, S_captured)))

\* na_items before the sort: the raw ids of the unmatched entries of the status
NaIds(idx, matched, target) ==
    {idx[k].id : k \in {k \in DOMAIN idx \ matched : idx[k].status = target}}

\* na_items.sort(key=lambda x: x["id"])
RECURSIVE SortIds(_)
SortIds(S) ==
    IF S = {} THEN <<>>
    ELSE LET m == CHOOSE x \in S : \A y \in S \ {x} : StrLess(x, y)
         IN  <<m>> \o SortIds(S \ {m})

\* na_by_status: setdefault(status, []).append(id) over the sorted items
GroupByStatus(ids, target) == IF ids = <<>> THEN <<>> ELSE (target :> ids)

\* the JSONResponse
Report(idx, matched, docs, with_tx, nPayments, na) ==
    LET target == TargetStatus(na)
        ids == SortIds(NaIds(idx, matched, target))
    IN  [summary |->
            [total_orders_docs_scanned |-> docs,
             orders_with_transaction_id |-> with_tx,
             total_payments_rows |-> nPayments,
             matched_distinct_payment_ids |-> Cardinality(matched),
             na_count |-> Len(ids),
             na_status_filter |-> target],
         na_payment_ids |-> ids,
         na_by_status |-> GroupByStatus(ids, target)]

\* what the caller of the endpoint gets for an exception leaving the handler:
\* the two except clauses of the fetch, the one of the scan, FastAPI's
\* validation of the Query parameters, and its answer to anything unhandled
Http(e) ==
    CASE e = "HTTPStatusError" -> "upstream_status"
      [] e = "RequestError" -> "502_razorpay"
      [] e = "PyMongoError" -> "502_mongo"
      [] e = "RequestValidationError" -> "422_validation"
      [] OTHER -> "500_internal"

\* ------------------------------------------------------------------------
\* Initial states: a reconciliation request has arrived.  Four families of
\* requests and environments are explored:
\*   paging     long gateway lists, every status filter and fetch cap
\*   matching   short gateway lists against every small order collection
\*   concurrent a scan of a collection that is written to while it is scanned
\*   endless    a gateway that returns a full page whatever the skip
\* ------------------------------------------------------------------------
NaStatusPool == {<<>>, S_Captured, S_SpCaptured, S_failed}
D_iso == <<50, 48, 50, 53, 45, 48, 56, 45, 49, 53>>      \* "2025-08-15"
D_garbage == <<110, 111, 112, 101>>                        \* "nope"
DateInputs == {None, D_iso, D_garbage}

InitCall ==
    /\ pc = "call"
    /\ exc = "none"
    /\ outcome = "none"
    /\ response = NoResponse
    /\ items = <<>>
    /\ skip = 0
    /\ gatewayLog = <<>>
    /\ payments = <<>>
    /\ pay_index = NoIndex
    /\ matched_keys = {}
    /\ total_orders_docs = 0
    /\ orders_with_tx = 0
    /\ last_id = NoId
    /\ storeQueries = 0
    /\ scanned = <<>>
    /\ storeWrites = 0
    /\ survivors = DOMAIN orders
    /\ norm_in = [s |-> None, ci |-> FALSE]
    /\ norm_out = None
    /\ norm_again = None

InitPaging ==
    /\ upstream \in LongUpstreams
    /\ gatewayWraps = FALSE
    /\ orders = (1 :> FillerId(1))
    /\ status \in {None, S_captured, S_Authorized}
    /\ max_fetch \in {0, 1, COUNT, COUNT + 1}
    /\ case_insensitive_ids = FALSE
    /\ orders_batch_size = 1
    /\ na_status = S_failed
    /\ writeCap = 0

InitMatching ==
    /\ upstream \in ShortUpstreams
    /\ gatewayWraps = FALSE
    /\ orders \in Collections(TxPool, MaxOrders)
    /\ status \in {None, S_captured, S_CapturedSp}
    /\ max_fetch = COUNT
    /\ case_insensitive_ids \in BOOLEAN
    /\ orders_batch_size = 1
    /\ na_status \in NaStatusPool
    /\ writeCap = 0

InitConcurrent ==
    /\ upstream = <<Payment(S_pay_1, S_captured)>>
    /\ gatewayWraps = FALSE
    /\ orders \in Collections({None}, MaxDocs)
    /\ status = None
    /\ max_fetch = COUNT
    /\ case_insensitive_ids = FALSE
    /\ orders_batch_size \in 1..MaxBatch
    /\ na_status = <<>>
    /\ writeCap = MaxWrites

\* a gateway that answers every request with a full page
InitEndless ==
    /\ upstream \in {LongList(COUNT, bad) : bad \in SUBSET {1}}
    /\ gatewayWraps = TRUE
    /\ orders = (1 :> FillerId(1))
    /\ status \in {None, S_captured, S_Authorized}
    /\ max_fetch \in {1, COUNT, COUNT + 1, MaxPages * COUNT + 1}
    /\ case_insensitive_ids = FALSE
    /\ orders_batch_size = 1
    /\ na_status = S_failed
    /\ writeCap = 0

Init == (InitPaging \/ InitMatching \/ InitConcurrent \/ InitEndless) /\ InitCall

\* ------------------------------------------------------------------------
\* The request
\* ------------------------------------------------------------------------
\* dtparser.parse(s) raises on s
Unparsable(s) == s = D_garbage

\* _to_unix(s) raises: `if not s: return None` comes first
ToUnixRaises(s) == OrElse(s, <<>>) # <<>> /\ Unparsable(s)

\* the exception swallowed and what was accumulated so far reported
Raise_partial(e) ==
    /\ pc' = "done"
    /\ exc' = e
    /\ outcome' = "200"
    /\ response' = Report(pay_index, matched_keys, total_orders_docs,
                          orders_with_tx, Len(items), na_status)

\* the call ends with exception e; nothing is returned
Raise(e) ==
    /\ pc' = "error"
    /\ exc' = e
    /\ outcome' = Http(e)
    /\ response' = NoResponse

\* The request is validated (max_fetch: ge=1) and the handler runs up to the
\* call of fetch_payments, evaluating _to_unix(from_date), _to_unix(to_date).
\* The parsed bounds only travel to the gateway as from/to: upstream is the
\* gateway's list for that window.
Call ==
    /\ pc = "call"
    /\ \E from_date \in DateInputs, to_date \in DateInputs :
          IF max_fetch < 1 THEN Raise("RequestValidationError")
          ELSE IF ToUnixRaises(from_date) \/ ToUnixRaises(to_date) THEN Raise("ParserError")
          ELSE /\ pc' = "fetch"
               /\ UNCHANGED resultVars
    /\ UNCHANGED << paramVars, storeVars, fetchVars, scanVars, normVars >>

\* One iteration of fetch_payments' loop whose request succeeds.  When the
\* loop ends, fetch_payments returns and the handler builds pay_index and
\* starts the scan (no I/O in between).
FetchPage ==
    /\ pc = "fetch"
    /\ LET batch == FilterBatch(GatewayAnswer(upstream, skip, gatewayWraps), status)
           acc == items \o batch
       IN  /\ gatewayLog' = Append(gatewayLog, skip)
           /\ items' = acc
           /\ IF FetchStops(batch, acc, max_fetch)
              THEN /\ payments' = Truncate(acc, max_fetch)
                   /\ pay_index' = BuildIndex(payments', case_insensitive_ids)
                   /\ pc' = "scan"
                   /\ skip' = skip
              ELSE /\ skip' = skip + COUNT
                   /\ UNCHANGED << payments, pay_index, pc >>
    /\ UNCHANGED << paramVars, storeVars, resultVars, normVars, matched_keys,
                    total_orders_docs, orders_with_tx, last_id, storeQueries, scanned >>

\* The request of one iteration fails: raise_for_status() raises
\* HTTPStatusError, or the transport raises a RequestError.
FetchFail ==
    /\ pc = "fetch"
    /\ gatewayLog' = Append(gatewayLog, skip)
    /\ \E e \in {"HTTPStatusError", "RequestError"} : Raise(e)
    /\ UNCHANGED << paramVars, storeVars, items, skip, payments, scanVars, normVars >>

\* One iteration of the scan loop whose query succeeds; an empty batch ends
\* the loop and the handler computes and returns the response.
ScanBatch ==
    /\ pc = "scan"
    /\ storeQueries' = storeQueries + 1
    /\ LET batch == StoreFind(orders, last_id, orders_batch_size)
           acc == ScanFrom([with_tx |-> orders_with_tx, matched |-> matched_keys],
                           orders, batch, 1, DOMAIN pay_index, case_insensitive_ids)
       IN  IF ScanEnds(batch, orders_batch_size)
           THEN /\ pc' = "done"
                /\ exc' = "none"
                /\ outcome' = "200"
                /\ response' = Report(pay_index, matched_keys, total_orders_docs,
                                      orders_with_tx, Len(payments), na_status)
                /\ UNCHANGED << matched_keys, total_orders_docs, orders_with_tx,
                                last_id, scanned >>
           ELSE /\ total_orders_docs' = total_orders_docs + Len(batch)
                /\ orders_with_tx' = acc.with_tx
                /\ matched_keys' = acc.matched
                /\ last_id' = NextCursor(batch)
                /\ scanned' = scanned \o batch
                /\ UNCHANGED << pc, resultVars >>
    /\ UNCHANGED << paramVars, storeVars, fetchVars, pay_index, normVars >>

\* The query of one iteration raises PyMongoError.
ScanFail ==
    /\ pc = "scan"
    /\ storeQueries' = storeQueries + 1
    /\ Raise("PyMongoError")
    /\ UNCHANGED << paramVars, storeVars, fetchVars, pay_index, matched_keys,
                    total_orders_docs, orders_with_tx, last_id, scanned, normVars >>

\* ------------------------------------------------------------------------
\* Other clients of the order store, while the scan runs.  A batch query is
\* one atomic read of the collection; writes happen between queries.  Writes
\* made before the scan are covered by the choice of the initial collection.
\* ------------------------------------------------------------------------
\* an insert; the new _id is greater than every _id in the collection
InsertOrder ==
    /\ pc = "scan"
    /\ storeWrites < writeCap
    /\ \E d \in 1..MaxId, tx \in TxPool :
          /\ \A e \in DOMAIN orders : e < d
          /\ orders' = [e \in DOMAIN orders \cup {d} |-> IF e = d THEN tx ELSE orders[e]]
          /\ survivors' = IF storeQueries = 0 THEN survivors \cup {d} ELSE survivors
    /\ storeWrites' = storeWrites + 1
    /\ UNCHANGED << paramVars, pc, resultVars, fetchVars, scanVars, normVars >>

DeleteOrder ==
    /\ pc = "scan"
    /\ storeWrites < writeCap
    /\ \E d \in DOMAIN orders :
          /\ orders' = [e \in DOMAIN orders \ {d} |-> orders[e]]
          /\ survivors' = survivors \ {d}
    /\ storeWrites' = storeWrites + 1
    /\ UNCHANGED << paramVars, pc, resultVars, fetchVars, scanVars, normVars >>

Next ==
    \/ Call
    \/ FetchPage
    \/ FetchFail
    \/ ScanBatch
    \/ ScanFail
    \/ InsertOrder
    \/ DeleteOrder

Spec == Init /\ [][Next]_vars

\* ------------------------------------------------------------------------
\* norm on its own: every string of up to MaxStrLen characters over
\* {TAB, space, NBSP, 'A', 'a'}, and None, normalized and normalized again
\* ------------------------------------------------------------------------
NormAlphabet == {9, SP, NBSP, 65, 97}
NormInputs == SeqsUpTo(NormAlphabet, MaxStrLen) \cup {None}

InitNorm ==
    /\ norm_in \in [s : NormInputs, ci : BOOLEAN]
    /\ norm_out = None
    /\ norm_again = None
    /\ pc = "norm"
    /\ upstream = <<>>
    /\ gatewayWraps = FALSE
    /\ orders = <<>>
    /\ survivors = {}
    /\ writeCap = 0
    /\ storeWrites = 0
    /\ status = None
    /\ max_fetch = COUNT
    /\ case_insensitive_ids = FALSE
    /\ orders_batch_size = 1
    /\ na_status = <<>>
    /\ exc = "none"
    /\ outcome = "none"
    /\ response = NoResponse
    /\ items = <<>>
    /\ skip = 0
    /\ gatewayLog = <<>>
    /\ payments = <<>>
    /\ pay_index = NoIndex
    /\ matched_keys = {}
    /\ total_orders_docs = 0
    /\ orders_with_tx = 0
    /\ last_id = NoId
    /\ storeQueries = 0
    /\ scanned = <<>>

NormApply ==
    /\ pc = "norm"
    /\ norm_out' = norm(norm_in.s, norm_in.ci)
    /\ pc' = "normed"
    /\ UNCHANGED << paramVars, storeVars, resultVars, fetchVars, scanVars,
                    norm_in, norm_again >>

NormReapply ==
    /\ pc = "normed"
    /\ norm_again' = norm(norm_out, norm_in.ci)
    /\ pc' = "renormed"
    /\ UNCHANGED << paramVars, storeVars, resultVars, fetchVars, scanVars,
                    norm_in, norm_out >>

NextNorm == NormApply \/ NormReapply

SpecNorm == InitNorm /\ [][NextNorm]_vars

\* ========================================================================
\* Properties
\* ========================================================================
IsAscending(ids) == \A i \in 1..(Len(ids) - 1) : StrLess(ids[i], ids[i + 1])
Range(f) == {f[i] : i \in DOMAIN f}
CeilDiv(a, b) == (a + b - 1) \div b

\* C8: norm is total and idempotent: it yields a string for every string and
\* for None, yields "" for None and "", its result has no whitespace and no
\* no-break space at either end, and normalizing the result changes nothing.
C8_NormTotalIdempotent ==
    /\ pc \in {"normed", "renormed"} =>
          /\ IsString(norm_out)
          /\ OrElse(norm_in.s, <<>>) = <<>> => norm_out = <<>>
          /\ norm_out # <<>> =>
                /\ ~IsSpace(norm_out[1]) /\ norm_out[1] # NBSP
                /\ ~IsSpace(norm_out[Len(norm_out)]) /\ norm_out[Len(norm_out)] # NBSP
    /\ pc = "renormed" => norm_again = norm_out

C8_Witness ==
    /\ pc = "renormed"
    /\ norm_in = [s |-> <<NBSP, 65, SP>>, ci |-> TRUE]
    /\ norm_out = <<97>>
    /\ norm_again = <<97>>

\* C6: whatever inserts (with an _id above every existing one) and deletes
\* run between the batch queries, no document is scanned or counted twice,
\* and a document present from before the first query until the scan has
\* ended is scanned exactly once.
C6_ScannedOnceUnderWrites ==
    /\ \A i, j \in 1..Len(scanned) : i # j => scanned[i] # scanned[j]
    /\ total_orders_docs = Len(scanned)
    /\ pc = "done" => survivors \subseteq Range(scanned)

C6_Witness ==
    /\ pc = "done"
    /\ storeWrites = 2
    /\ survivors # {}
    /\ Range(scanned) \ survivors # {}
    /\ DOMAIN orders # Range(scanned)

\* C10: on a collection of n documents that nobody writes to, for every
\* batch size b: the documents are scanned in ascending _id order, each once,
\* the cursor is the last _id scanned, total_orders_docs_scanned = n, the scan
\* ends only when a batch is empty, and it takes exactly ceil(n/b) + 1
\* queries (one query when n = 0).
C10_StaticScan ==
    storeWrites = 0 =>
        LET n == Cardinality(DOMAIN orders)
            b == orders_batch_size
        IN  /\ \A i \in 1..(Len(scanned) - 1) : scanned[i] < scanned[i + 1]
            /\ scanned # <<>> => last_id = scanned[Len(scanned)]
            /\ pc = "scan" =>
                  /\ Len(scanned) = Min(n, storeQueries * b)
                  /\ storeQueries <= CeilDiv(n, b)
            /\ pc = "done" =>
                  /\ Range(scanned) = DOMAIN orders
                  /\ response.summary.total_orders_docs_scanned = n
                  /\ storeQueries = CeilDiv(n, b) + 1
                  /\ {d \in DOMAIN orders : d > last_id} = {}

C10_Witness ==
    /\ pc = "done"
    /\ storeWrites = 0
    /\ Cardinality(DOMAIN orders) = 3
    /\ orders_batch_size = 2
    /\ storeQueries = 3
    /\ scanned = <<1, 2, 3>>

\* C4: once a gateway request or a store query has failed, the call is over
\* with an error answer and without summary or NA list, no request or query
\* is sent afterwards, and no gateway page is ever requested twice.
ExternalFailures == {"HTTPStatusError", "RequestError", "PyMongoError"}

NothingSentAfterFailure ==
    exc \in ExternalFailures => (gatewayLog' = gatewayLog /\ storeQueries' = storeQueries)

C4_FailureAborts ==
    /\ [](exc \in ExternalFailures =>
            /\ pc = "error"
            /\ response = NoResponse
            /\ outcome \in {"upstream_status", "502_razorpay", "502_mongo"})
    /\ [](\A i, j \in 1..Len(gatewayLog) : i # j => gatewayLog[i] # gatewayLog[j])
    /\ [][NothingSentAfterFailure]_vars

C4_Witness ==
    /\ pc = "error"
    /\ exc = "PyMongoError"
    /\ storeQueries = 2
    /\ matched_keys # {}
    /\ Len(gatewayLog) = 1
    /\ response = NoResponse

\* the NA part of a response: exactly the raw ids of the unmatched index
\* entries whose status is want, ascending, counted, and grouped under want
NaReportIs(want) ==
    LET E == {pay_index[k].id :
                 k \in {k \in DOMAIN pay_index \ matched_keys : pay_index[k].status = want}}
        ids == response.na_payment_ids
    IN  /\ Range(ids) = E
        /\ Len(ids) = Cardinality(E)
        /\ IsAscending(ids)
        /\ response.summary.na_count = Len(ids)
        /\ response.na_by_status = IF ids = <<>> THEN <<>> ELSE (want :> ids)

\* C3 as stated: the reported ids are those of the unmatched entries whose
\* indexed status equals na_status (default "captured") up to letter case, in
\* ascending order, and na_by_status has the one key na_status lower-cased.
C3_AsStated == pc = "done" => NaReportIs(Lower(OrElse(na_status, S_captured)))

\* C3, amended: na_status (an empty one standing for "captured") is compared
\* after removing its surrounding whitespace and lower-casing it, and that
\* trimmed, lower-cased value is the one key of na_by_status.
C3_NaReport == pc = "done" => NaReportIs(Lower(Strip(OrElse(na_status, S_captured))))

C3_Witness ==
    /\ pc = "done"
    /\ na_status = S_SpCaptured
    /\ Len(response.na_payment_ids) = 2
    /\ Cardinality(DOMAIN pay_index \ matched_keys) = 2
    /\ response.na_by_status = (S_captured :> response.na_payment_ids)

\* the payments of the gateway's list that the status filter keeps
\* (all of them when there is no filter)
Matching(list, filter) ==
    {i \in 1..Len(list) :
        OrElse(filter, <<>>) = <<>> \/ Lower(OrElse(list[i].status, <<>>)) = Lower(filter)}

\* the gateway has at least n payments that the filter keeps
HasMatching(n) ==
    IF gatewayWraps THEN n = 0 \/ Matching(upstream, status) # {}
    ELSE Cardinality(Matching(upstream, status)) >= n

\* C1: when the gateway's list holds at least max_fetch payments matching the
\* status filter, fetch_payments returns exactly max_fetch records and the
\* summary reports total_payments_rows = max_fetch.
C1_ExactlyMaxFetch ==
    (pc \in {"scan", "done"} /\ HasMatching(max_fetch)) =>
        /\ Len(payments) = max_fetch
        /\ pc = "done" => response.summary.total_payments_rows = max_fetch

\* C2: after a reconciliation over a collection nobody wrote to, a key of the
\* index is unmatched exactly when no order has a non-empty transaction_id
\* whose normalized form (same case flag) is that key.
OrderRefersTo(k) ==
    \E d \in DOMAIN orders :
        /\ OrElse(orders[d], <<>>) # <<>>
        /\ norm(orders[d], case_insensitive_ids) = k

C2_UnmatchedIffNoOrder ==
    (pc = "done" /\ storeWrites = 0) =>
        \A k \in DOMAIN pay_index : (k \notin matched_keys) <=> ~OrderRefersTo(k)

\* C5: an unparsable from_date or to_date ends the call with a
\* request-validation error, before any gateway request or store query.
C5_BadDateIsValidationError ==
    exc = "ParserError" =>
        /\ outcome = "422_validation"
        /\ gatewayLog = <<>>
        /\ storeQueries = 0

\* C7: the index never holds the empty key, and no payment whose raw id is
\* empty or blank is reported as NA.
IsBlank(s) == Strip(OrElse(s, <<>>)) = <<>>

C7_NoBlankKey ==
    /\ <<>> \notin DOMAIN pay_index
    /\ pc = "done" =>
          \A i \in 1..Len(response.na_payment_ids) : ~IsBlank(response.na_payment_ids[i])

\* C9: a successful page request is followed by the request of the next page
\* (skip advanced by COUNT) exactly when the page received held COUNT records
\* and fewer than max_fetch records have been accumulated.
FetchContinuesIffFullPage ==
    (pc = "fetch" /\ pc' # "error" /\ gatewayLog' # gatewayLog) =>
        ((pc' = "fetch" /\ skip' = skip + COUNT)
            <=> (Len(GatewayAnswer(upstream, skip, gatewayWraps)) = COUNT
                    /\ Len(items') < max_fetch))

C9_StopsExactlyWhen == [][FetchContinuesIffFullPage]_vars

\* C11: at every step of the scan matched_keys is a set of keys of the index;
\* no step removes a key from it and a step adds at most one key per document
\* it scans; so matched_distinct_payment_ids exceeds neither the number of
\* index keys nor orders_with_transaction_id.
MatchedGrowsByScannedDocs ==
    /\ matched_keys \subseteq matched_keys'
    /\ Cardinality(matched_keys') - Cardinality(matched_keys) <= Len(scanned') - Len(scanned)

C11_MatchedWithinIndex ==
    /\ [](/\ matched_keys \subseteq DOMAIN pay_index
          /\ Cardinality(matched_keys) <= orders_with_tx
          /\ pc = "done" =>
                /\ response.summary.matched_distinct_payment_ids = Cardinality(matched_keys)
                /\ response.summary.matched_distinct_payment_ids
                       <= Cardinality(DOMAIN pay_index)
                /\ response.summary.matched_distinct_payment_ids
                       <= response.summary.orders_with_transaction_id)
    /\ [][MatchedGrowsByScannedDocs]_vars

C11_Witness ==
    /\ pc = "done"
    /\ Cardinality(matched_keys) = 2
    /\ Cardinality(DOMAIN pay_index) = 2
    /\ orders_with_tx = 2
    /\ storeQueries = 3

\* C12: of the fetched payments whose raw ids normalize to one key, the index
\* entry of the key holds the raw id and status of the last one in fetch
\* order, and an earlier one with another raw id is never in na_payment_ids.
HasRawId(p) == OrElse(p.id, <<>>) # <<>>
KeyOf(p) == norm(p.id, case_insensitive_ids)
LastColliding(i) ==
    LET key == KeyOf(payments[i])
        colliding == {j \in i..Len(payments) :
                         HasRawId(payments[j]) /\ KeyOf(payments[j]) = key}
    IN  CHOOSE j \in colliding : \A l \in colliding : l <= j

C12_LastWriteWins ==
    \A i \in 1..Len(payments) :
        HasRawId(payments[i]) =>
            LET last == payments[LastColliding(i)]
            IN  /\ KeyOf(payments[i]) \in DOMAIN pay_index
                /\ pay_index[KeyOf(payments[i])] =
                       [id |-> last.id, status |-> Lower(Strip(OrElse(last.status, <<>>)))]
                /\ (pc = "done" /\ last.id # payments[i].id) =>
                       payments[i].id \notin Range(response.na_payment_ids)

C12_Witness ==
    /\ pc = "done"
    /\ case_insensitive_ids
    /\ payments = <<Payment(S_PAY_1, S_captured), Payment(S_pay_1, S_failed)>>
    /\ matched_keys = {}
    /\ response.summary.na_status_filter = S_captured
    /\ pay_index = (S_pay_1 :> [id |-> S_pay_1, status |-> S_failed])
    /\ response.na_payment_ids = <<>>

\* C13: whatever the gateway holds, also when it has a full page for every
\* request, fetch_payments sends at most ceil(max_fetch / COUNT) requests (so
\* it is never about to send one more), the i-th with skip = (i - 1) * COUNT,
\* and returns at most max_fetch records.
C13_FetchBounded ==
    max_fetch >= 1 =>
        /\ Len(gatewayLog) <= CeilDiv(max_fetch, COUNT)
        /\ pc = "fetch" => Len(gatewayLog) < CeilDiv(max_fetch, COUNT)
        /\ \A i \in 1..Len(gatewayLog) : gatewayLog[i] = (i - 1) * COUNT
        /\ Len(payments) <= max_fetch

C13_Witness ==
    /\ gatewayWraps
    /\ pc = "scan"
    /\ max_fetch = COUNT + 1
    /\ gatewayLog = <<0, COUNT>>
    /\ Len(items) = 2 * COUNT
    /\ Len(payments) = COUNT + 1

\* C14: when a status filter is given and, trimmed and lower-cased, differs
\* from na_status trimmed and lower-cased ("captured" when na_status is
\* empty), the response reports no NA payment at all.
FilterDiffersFromNaStatus ==
    /\ OrElse(status, <<>>) # <<>>
    /\ Lower(Strip(status)) # Lower(Strip(OrElse(na_status, S_captured)))

C14_FilterOtherThanNaStatus ==
    (pc = "done" /\ FilterDiffersFromNaStatus) =>
        /\ response.na_payment_ids = <<>>
        /\ response.na_by_status = <<>>
        /\ response.summary.na_count = 0

C14_Witness ==
    /\ pc = "done"
    /\ status = S_CapturedSp
    /\ na_status = S_failed
    /\ payments = <<Payment(S_pay_2, S_CapturedSp)>>
    /\ matched_keys = {}
    /\ DOMAIN pay_index = {S_pay_2}
    /\ response.summary.na_count = 0

====
